---- MODULE Spec2Model ----
(***************************************************************************)
(* Model of vscode-code-comment-translator:                                *)
(*   src/src/RadixTree.ts  - ReplacementRadixTree (insert, findLongestMatch)*)
(*   src/src/extension.ts  - handleDocumentUpdate and its helpers           *)
(*                                                                         *)
(* A JavaScript string is a sequence of one-character strings, so that     *)
(* trim, split, join, indexOf and replaceAll are computed as the code      *)
(* computes them.  A word is a string; a phrase label is a sequence of     *)
(* words.  A Map is a sequence of [key, node] entries in insertion order.  *)
(***************************************************************************)
EXTENDS Integers, Sequences, FiniteSets, TLC

\* ------------------------------------------------------------------------
\* Bounds
\* ------------------------------------------------------------------------
MaxPhraseLen == 4
MaxInserts == 2
MaxQueryLen == 2
NumCycles == 2
MaxRuns == 2
MaxComments == 2
MaxCommentWords == 2
MaxResponseLen == 2
NumDocuments == 4

\* ------------------------------------------------------------------------
\* JavaScript values
\* ------------------------------------------------------------------------
\* The value `undefined` (an absent optional field, a missing array element).
Undefined == <<"undefined">>

\* The value `null` returned by findLongestMatch.
Null == <<>>

Min(S) == CHOOSE x \in S : \A y \in S : x <= y

Max(S) == CHOOSE x \in S : \A y \in S : x >= y

\* All sequences over S of length 0..n.
SeqsUpTo(S, n) == UNION {[1..k -> S] : k \in 0..n}

\* Characters String.prototype.trim removes.
Whitespace == {" ", "\t", "\n"}

\* String.prototype.trim
Trim(s) ==
    LET idx == {i \in 1..Len(s) : s[i] \notin Whitespace}
    IN  IF idx = {} THEN <<>> ELSE SubSeq(s, Min(idx), Max(idx))

\* String.prototype.split(sep) for a one-character separator: "" gives [""].
RECURSIVE Split(_, _)
Split(s, sep) ==
    LET idx == {i \in 1..Len(s) : s[i] = sep}
    IN  IF idx = {} THEN <<s>>
        ELSE <<SubSeq(s, 1, Min(idx) - 1)>>
                 \o Split(SubSeq(s, Min(idx) + 1, Len(s)), sep)

\* array[0] of a JavaScript array: undefined when the array is empty.
First(arr) == IF Len(arr) = 0 THEN Undefined ELSE arr[1]

\* ------------------------------------------------------------------------
\* RadixNode and Map<string, RadixNode>
\* ------------------------------------------------------------------------
RadixNode(phrase, children, isEndOfWord, replacement) ==
    [phrase |-> phrase, children |-> children,
     isEndOfWord |-> isEndOfWord, replacement |-> replacement]

\* new Map()
EmptyMap == <<>>

\* Map.prototype.set: an existing key keeps its position, a new key is appended.
MapSet(m, k, v) ==
    IF \E i \in 1..Len(m) : m[i].key = k
    THEN [i \in 1..Len(m) |-> IF m[i].key = k THEN [key |-> k, node |-> v] ELSE m[i]]
    ELSE Append(m, [key |-> k, node |-> v])

\* The root built by the constructor.
NewRoot == RadixNode(<<>>, EmptyMap, FALSE, Undefined)

\* findCommonPrefix that stops counting after the first word.
findCommonPrefix_FirstWordOnly(a, b) ==
    IF Len(a) > 0 /\ Len(b) > 0 /\ a[1] = b[1] THEN 1 ELSE 0

findCommonPrefix(a, b) ==
    LET len == IF Len(a) < Len(b) THEN Len(a) ELSE Len(b)
    IN  CHOOSE i \in 0..len :
            /\ \A j \in 1..i : a[j] = b[j]
            /\ i < len => a[i + 1] # b[i + 1]

\* SplitShorter whose demoted node loses the end-marker of the original node
\* and keeps its replacement.
SplitShorter_DropsMarker(child, remainingWords, commonPrefixLength, replacement) ==
    LET newNode == RadixNode(SubSeq(child.phrase, commonPrefixLength + 1, Len(child.phrase)),
                             child.children, FALSE, child.replacement)
    IN  RadixNode(remainingWords,
                  MapSet(EmptyMap, First(newNode.phrase), newNode),
                  TRUE, replacement)

\* SplitShorter whose demoted node takes its label one word too far into the
\* original label.
SplitShorter_SliceOffByOne(child, remainingWords, commonPrefixLength, replacement) ==
    LET newNode == RadixNode(SubSeq(child.phrase, commonPrefixLength + 2, Len(child.phrase)),
                             child.children, child.isEndOfWord, child.replacement)
    IN  RadixNode(remainingWords,
                  MapSet(EmptyMap, First(newNode.phrase), newNode),
                  TRUE, replacement)

\* SplitShorter whose shrunk node keeps the replacement the child had.
SplitShorter_KeepsOldReplacement(child, remainingWords, commonPrefixLength, replacement) ==
    LET newNode == RadixNode(SubSeq(child.phrase, commonPrefixLength + 1, Len(child.phrase)),
                             child.children, child.isEndOfWord, child.replacement)
    IN  RadixNode(remainingWords,
                  MapSet(EmptyMap, First(newNode.phrase), newNode),
                  TRUE, child.replacement)

\* Case 2 of insertRecursive: the new phrase ends inside the child's label.
SplitShorter(child, remainingWords, commonPrefixLength, replacement) ==
    LET newNode == RadixNode(SubSeq(child.phrase, commonPrefixLength + 1, Len(child.phrase)),
                             child.children, child.isEndOfWord, child.replacement)
    IN  RadixNode(remainingWords,
                  MapSet(EmptyMap, First(newNode.phrase), newNode),
                  TRUE, replacement)

\* SplitThreeWay with the new phrase's node stored under the first word of the
\* shared prefix instead of the first word of its own label.
SplitThreeWay_KeyedByPrefix(child, remainingWords, commonPrefixLength, replacement) ==
    LET splitNode == RadixNode(SubSeq(child.phrase, commonPrefixLength + 1, Len(child.phrase)),
                               child.children, child.isEndOfWord, child.replacement)
        newNode == RadixNode(SubSeq(remainingWords, commonPrefixLength + 1, Len(remainingWords)),
                             EmptyMap, TRUE, replacement)
    IN  RadixNode(SubSeq(remainingWords, 1, commonPrefixLength),
                  MapSet(MapSet(EmptyMap, First(splitNode.phrase), splitNode),
                         First(remainingWords), newNode),
                  FALSE, Undefined)

\* SplitThreeWay whose prefix node keeps the end-marker and replacement the
\* child had.
SplitThreeWay_KeepsMarker(child, remainingWords, commonPrefixLength, replacement) ==
    LET splitNode == RadixNode(SubSeq(child.phrase, commonPrefixLength + 1, Len(child.phrase)),
                               child.children, child.isEndOfWord, child.replacement)
        newNode == RadixNode(SubSeq(remainingWords, commonPrefixLength + 1, Len(remainingWords)),
                             EmptyMap, TRUE, replacement)
    IN  RadixNode(SubSeq(remainingWords, 1, commonPrefixLength),
                  MapSet(MapSet(EmptyMap, First(splitNode.phrase), splitNode),
                         First(newNode.phrase), newNode),
                  child.isEndOfWord, child.replacement)

\* SplitThreeWay that marks the prefix node as the end of a phrase with the
\* new replacement.
SplitThreeWay_MarksPrefix(child, remainingWords, commonPrefixLength, replacement) ==
    LET splitNode == RadixNode(SubSeq(child.phrase, commonPrefixLength + 1, Len(child.phrase)),
                               child.children, child.isEndOfWord, child.replacement)
        newNode == RadixNode(SubSeq(remainingWords, commonPrefixLength + 1, Len(remainingWords)),
                             EmptyMap, TRUE, replacement)
    IN  RadixNode(SubSeq(remainingWords, 1, commonPrefixLength),
                  MapSet(MapSet(EmptyMap, First(splitNode.phrase), splitNode),
                         First(newNode.phrase), newNode),
                  TRUE, replacement)

\* Case 3 of insertRecursive: both the label and the new phrase go on after
\* the common prefix.
SplitThreeWay(child, remainingWords, commonPrefixLength, replacement) ==
    LET splitNode == RadixNode(SubSeq(child.phrase, commonPrefixLength + 1, Len(child.phrase)),
                               child.children, child.isEndOfWord, child.replacement)
        newNode == RadixNode(SubSeq(remainingWords, commonPrefixLength + 1, Len(remainingWords)),
                             EmptyMap, TRUE, replacement)
    IN  RadixNode(SubSeq(remainingWords, 1, commonPrefixLength),
                  MapSet(MapSet(EmptyMap, First(splitNode.phrase), splitNode),
                         First(newNode.phrase), newNode),
                  FALSE, Undefined)

\* The node insertRecursive leaves in place of `node`; index counts the
\* words already consumed.
RECURSIVE insertRecursive(_, _, _, _)
insertRecursive(node, words, index, replacement) ==
    IF index = Len(words)
    THEN [node EXCEPT !.isEndOfWord = TRUE, !.replacement = replacement]
    ELSE
        LET firstWord == words[index + 1]
            remainingWords == SubSeq(words, index + 1, Len(words))
            common(i) == findCommonPrefix(node.children[i].node.phrase, remainingWords)
            hits == {i \in 1..Len(node.children) : common(i) > 0}
        IN  IF hits = {}
            THEN [node EXCEPT !.children =
                      MapSet(@, firstWord, RadixNode(remainingWords, EmptyMap, TRUE, replacement))]
            ELSE
                LET i == Min(hits)
                    child == node.children[i].node
                    commonPrefixLength == common(i)
                IN  [node EXCEPT !.children[i].node =
                        IF commonPrefixLength = Len(child.phrase)
                        THEN insertRecursive(child, words, index + commonPrefixLength, replacement)
                        ELSE IF commonPrefixLength = Len(remainingWords)
                        THEN SplitShorter(child, remainingWords, commonPrefixLength, replacement)
                        ELSE SplitThreeWay(child, remainingWords, commonPrefixLength, replacement)]

\* InsertWords that gives no word at all for a blank phrase.
InsertWords_NoWordForBlank(phrase) ==
    IF Trim(phrase) = <<>> THEN <<>> ELSE Split(Trim(phrase), " ")

\* The words insert hands to insertRecursive: phrase.trim().split(" ").
InsertWords(phrase) == Split(Trim(phrase), " ")

\* The root after tree.insert(phrase, replacement).
insert(root_, phrase, replacement) ==
    insertRecursive(root_, InsertWords(phrase), 0, replacement)

\* LabelMatches comparing only the first word of the label.
LabelMatches_FirstWordOnly(child, words, index) ==
    /\ index + Len(child.phrase) <= Len(words)
    /\ \A i \in 1..Len(child.phrase) : i = 1 => child.phrase[i] = words[index + i]

\* Does the child's label match the words at position index (0-based)?
LabelMatches(child, words, index) ==
    /\ index + Len(child.phrase) <= Len(words)
    /\ \A i \in 1..Len(child.phrase) : child.phrase[i] = words[index + i]

RECURSIVE findLongestMatchRecursive(_, _, _, _)
RECURSIVE ScanChildren(_, _, _, _, _, _)
\* The loop over node.children.values(), from entry i on, with the best
\* match found so far.
ScanChildren(node, words, index, matchLength, i, bestMatch) ==
    IF i > Len(node.children) THEN bestMatch
    ELSE
        LET child == node.children[i].node
            match == IF LabelMatches(child, words, index)
                     THEN findLongestMatchRecursive(child, words,
                              index + Len(child.phrase), matchLength + Len(child.phrase))
                     ELSE Null
            better == /\ match # Null
                      /\ (bestMatch = Null \/ match[1] > bestMatch[1])
        IN  ScanChildren(node, words, index, matchLength, i + 1,
                         IF better THEN match ELSE bestMatch)

findLongestMatchRecursive(node, words, index, matchLength) ==
    IF index >= Len(words)
    THEN IF node.isEndOfWord THEN <<matchLength, node.replacement>> ELSE Null
    ELSE ScanChildren(node, words, index, matchLength, 1,
                      IF node.isEndOfWord THEN <<matchLength, node.replacement>> ELSE Null)

findLongestMatch(root_, words, startIndex) ==
    findLongestMatchRecursive(root_, words, startIndex, 0)

\* ------------------------------------------------------------------------
\* extension.ts: strings, arrays and objects as handleDocumentUpdate uses them
\* ------------------------------------------------------------------------
\* Array.prototype.join
RECURSIVE Join(_, _)
Join(arr, sep) ==
    IF Len(arr) = 0 THEN <<>>
    ELSE IF Len(arr) = 1 THEN arr[1]
    ELSE arr[1] \o sep \o Join(Tail(arr), sep)

\* commentContent.split(/\s+/).filter(Boolean): the maximal runs of
\* non-whitespace characters.
RECURSIVE SplitWhitespace(_)
SplitWhitespace(s) ==
    LET starts == {i \in 1..Len(s) : s[i] \notin Whitespace}
    IN  IF starts = {} THEN <<>>
        ELSE LET b == Min(starts)
                 stops == {i \in b..Len(s) : s[i] \in Whitespace}
                 e == IF stops = {} THEN Len(s) + 1 ELSE Min(stops)
             IN  <<SubSeq(s, b, e - 1)>> \o SplitWhitespace(SubSeq(s, e, Len(s)))

\* Array.prototype.slice(start, end) with 0-based bounds; a negative bound
\* counts from the end.
Slice(arr, start, end) ==
    LET norm(k) == IF k < 0 THEN (IF Len(arr) + k < 0 THEN 0 ELSE Len(arr) + k)
                   ELSE (IF k > Len(arr) THEN Len(arr) ELSE k)
    IN  SubSeq(arr, norm(start) + 1, norm(end))

\* String.prototype.indexOf: 0-based position of the first occurrence, or -1.
IndexOf(hay, needle) ==
    LET at == {i \in 0..(Len(hay) - Len(needle)) :
                   SubSeq(hay, i + 1, i + Len(needle)) = needle}
    IN  IF at = {} THEN -1 ELSE Min(at)

\* String.prototype.replaceAll(ch, "")
RemoveAll(s, ch) == SelectSeq(s, LAMBDA c : c # ch)

DigitChars == <<"0", "1", "2", "3", "4", "5", "6", "7", "8", "9">>

\* `${n}` for a number n >= 0.
RECURSIVE NumberToString(_)
NumberToString(n) ==
    IF n < 10 THEN <<DigitChars[n + 1]>>
    ELSE NumberToString(n \div 10) \o <<DigitChars[(n % 10) + 1]>>

\* !x for a string, null or undefined x.
Falsy(x) == x = <<>> \/ x = Undefined

\* context.globalState is a function from the keys that have a value to
\* their values; get(key) of any other key is undefined.  An object is kept
\* as its entries <<key, value>> in insertion order.
\* Object.entries(globalState.get(key)) and { ...globalState.get(key) }: no
\* entries when the value is undefined.
SavedEntries(memento, key) == IF key \in DOMAIN memento THEN memento[key] ELSE <<>>

\* MementoUpdate that keeps the written key only.
MementoUpdate_Replace(memento, key, value) == [k \in {key} |-> value]

\* globalState.update(key, value)
MementoUpdate(memento, key, value) ==
    [k \in (DOMAIN memento) \cup {key} |-> IF k = key THEN value ELSE memento[k]]

\* ObjectWith that leaves the value of a key the object already has.
ObjectWith_KeepFirst(obj, k, v) ==
    IF \E i \in 1..Len(obj) : obj[i][1] = k THEN obj ELSE Append(obj, <<k, v>>)

\* ObjectWith that spreads nothing: { [k]: v }.
ObjectWith_Fresh(obj, k, v) == <<<<k, v>>>>

\* { ...obj, [k]: v }
ObjectWith(obj, k, v) ==
    IF \E i \in 1..Len(obj) : obj[i][1] = k
    THEN [i \in 1..Len(obj) |-> IF obj[i][1] = k THEN <<k, v>> ELSE obj[i]]
    ELSE Append(obj, <<k, v>>)

\* line.replace(/^\s*\*/, ""): drops leading whitespace up to and including
\* a first "*".
StripStar(line) ==
    LET solid == {i \in 1..Len(line) : line[i] \notin Whitespace}
    IN  IF solid # {} /\ line[Min(solid)] = "*"
        THEN SubSeq(line, Min(solid) + 1, Len(line))
        ELSE line

\* The rewriting of a block comment's body.
CleanBlockComment(multiLineComment) ==
    LET lines == Split(multiLineComment, "\n")
    IN  Join([i \in 1..Len(lines) |-> Trim(StripStar(lines[i]))], <<" ">>)

\* The comment content of one regex match: group 1 of a line comment,
\* group 2 (rewritten) of a block comment.
CommentContent(match) ==
    LET singleLineComment == match.single
        multiLineComment == IF Falsy(match.multi) THEN match.multi
                            ELSE CleanBlockComment(match.multi)
    IN  IF ~Falsy(singleLineComment) THEN singleLineComment ELSE multiLineComment

\* getRandomWordsFromWords with the value getRandomNumberInRange returned;
\* the result is a string, null or undefined.
getRandomWordsFromWords(words, wordCount, randomIndex) ==
    IF wordCount < 1 THEN Null
    ELSE
        LET randomWord == IF randomIndex < Len(words) THEN words[randomIndex + 1] ELSE Undefined
            wordsAfterRandomWord == Len(words) - randomIndex - 1
            wordsAfterRandomWordCalculated ==
                IF wordsAfterRandomWord > wordCount THEN wordCount ELSE wordsAfterRandomWord
        IN  IF wordCount = 1 THEN randomWord
            ELSE Join(Slice(words, randomIndex, randomIndex + wordsAfterRandomWordCalculated),
                      <<" ">>)

\* The values getRandomNumberInRange(0, n - 1) can return:
\* Math.floor(Math.random() * n) with 0 <= Math.random() < 1.
RandomIndexes(n) == IF n <= 0 THEN {0} ELSE 0..(n - 1)

\* Hydrate that inserts nothing.
Hydrate_Nothing(tree_, entries) == tree_

\* Hydrate that inserts the first entry only.
Hydrate_FirstEntryOnly(tree_, entries) ==
    IF Len(entries) = 0 THEN tree_ ELSE insert(tree_, entries[1][1], entries[1][2])

\* The tree after the hydration loop over Object.entries of the saved
\* translations.
RECURSIVE Hydrate(_, _)
Hydrate(tree_, entries) ==
    IF Len(entries) = 0 THEN tree_
    ELSE Hydrate(insert(tree_, entries[1][1], entries[1][2]), Tail(entries))

\* translated.replaceAll("'", "").split(",").map((word) => word.trim())
ParseTranslated(translated) ==
    LET parts == Split(RemoveAll(translated, "'"), ",")
    IN  [i \in 1..Len(parts) |-> Trim(parts[i])]

\* ------------------------------------------------------------------------
\* A ReplacementRadixTree driven by arbitrary insert and findLongestMatch
\* calls
\* ------------------------------------------------------------------------
VARIABLES
    root,       \* the tree: its root RadixNode
    stored,     \* history: the words of every insert call so far, each with
                \* the replacement of the latest call for those words
    inserts,    \* number of insert calls so far
    lastCall,   \* the most recent call on the tree, with its outcome
    \* handleDocumentUpdate, one invocation (update cycle) per element of Cycles
    globalState,        \* context.globalState: language code -> saved translations
    pc,                 \* where each invocation stands
    lang,               \* languageCodeToTranslateTo
    tree,               \* the invocation's ReplacementRadixTree (its root)
    decorations,        \* the decorations array
    wordsToTranslate,   \* the wordsToTranslate array
    matches,            \* number of regex matches the while loop has taken
    rendered,           \* the setDecorations calls the invocation made
    warnings,           \* the showWarningMessage calls the invocation made
    requests,           \* the translateText calls the invocation made
    log,                \* history of the invocation: last sample taken, cache
                        \* hits, queued samples, outcome of translateText
    runs,               \* number of invocations so far
    \* activate: the open-document listener and its debounced handler
    processedDocuments, \* the processedDocuments set
    timeout,            \* the document of the pending setTimeout callback of
                        \* debounce, or NoDocument when no timer is pending
    handled             \* history: the documents handed to handleDocumentUpdate

treeVars == <<root, stored, inserts, lastCall>>

cycleVars == <<globalState, pc, lang, tree, decorations, wordsToTranslate,
               matches, rendered, warnings, requests, log, runs>>

activateVars == <<processedDocuments, timeout, handled>>

vars == <<treeVars, cycleVars, activateVars>>

\* Characters of the phrase strings handed to insert.
PhraseAlphabet == {"a", " "}

PhraseStrings == SeqsUpTo(PhraseAlphabet, MaxPhraseLen)

Replacements == {<<"x">>, <<"y">>}

\* Words of the word lists handed to findLongestMatch.
Vocabulary == {<<>>, <<"a">>, <<"a", "a">>}

QueryWords == SeqsUpTo(Vocabulary, MaxQueryLen)

NoCall == [op |-> "none"]

Cycles == 1..NumCycles

\* Values of the codeCommentTranslator.language setting.
Languages == {"es", "fr"}

\* document.languageId values: two with a comment pattern, one without.
LanguageIds == {"typescript", "typescriptreact", "plaintext"}

\* No document: no active editor, no pending timer.
NoDocument == 0

\* The documents (their uris) the user opens.
Documents == 1..NumDocuments

NoSample == [kind |-> "none"]

NoResponse == [kind |-> "none"]

NewLog == [sample |-> NoSample, hits |-> <<>>, queued |-> <<>>, response |-> NoResponse]

Init ==
    /\ root = NewRoot
    /\ stored = <<>>
    /\ inserts = 0
    /\ lastCall = NoCall
    /\ globalState = [l \in {} |-> <<>>]
    /\ pc = [c \in Cycles |-> "idle"]
    /\ lang = [c \in Cycles |-> "none"]
    /\ tree = [c \in Cycles |-> NewRoot]
    /\ decorations = [c \in Cycles |-> <<>>]
    /\ wordsToTranslate = [c \in Cycles |-> <<>>]
    /\ matches = [c \in Cycles |-> 0]
    /\ rendered = [c \in Cycles |-> <<>>]
    /\ warnings = [c \in Cycles |-> <<>>]
    /\ requests = [c \in Cycles |-> <<>>]
    /\ log = [c \in Cycles |-> NewLog]
    /\ runs = 0
    /\ processedDocuments = {}
    /\ timeout = NoDocument
    /\ handled = {}

\* The history after an insert call with these words.
Remember(st, words, replacement) ==
    [w \in (DOMAIN st) \cup {words} |-> IF w = words THEN replacement ELSE st[w]]

\* tree.insert(phrase, replacement); the call returns normally (no statement
\* of insert or insertRecursive throws).
Insert(phrase, replacement) ==
    /\ inserts < MaxInserts
    /\ lastCall.op # "findLongestMatch"
    /\ root' = insert(root, phrase, replacement)
    /\ stored' = Remember(stored, InsertWords(phrase), replacement)
    /\ inserts' = inserts + 1
    /\ lastCall' = [op |-> "insert", outcome |-> "returned"]
    /\ UNCHANGED cycleVars
    /\ UNCHANGED activateVars

\* tree.findLongestMatch(words, startIndex).  The call leaves the tree as it
\* is, so a behaviour is followed up to its first query: the trees queried
\* are exactly the trees that sequences of insert calls build.
FindLongestMatch(words, startIndex) ==
    /\ lastCall.op # "findLongestMatch"
    /\ lastCall' = [op |-> "findLongestMatch", words |-> words, startIndex |-> startIndex,
                    result |-> findLongestMatch(root, words, startIndex)]
    /\ UNCHANGED <<root, stored, inserts>>
    /\ UNCHANGED cycleVars
    /\ UNCHANGED activateVars

Next ==
    \/ \E phrase \in PhraseStrings, replacement \in Replacements : Insert(phrase, replacement)
    \/ \E words \in QueryWords, startIndex \in 0..MaxQueryLen : FindLongestMatch(words, startIndex)

Spec == Init /\ [][Next]_vars

\* ------------------------------------------------------------------------
\* Update cycles: invocations of handleDocumentUpdate
\* ------------------------------------------------------------------------
\* Words of the comments.
CommentWords == {<<"a">>, <<"b">>}

\* Comment bodies: up to MaxCommentWords words separated by single spaces,
\* and the body that is one space.
CommentBodies ==
    {Join(ws, <<" ">>) : ws \in SeqsUpTo(CommentWords, MaxCommentWords)} \cup {<<" ">>}

\* What commentRegex.exec can return for a comment with the given body: the
\* matched text and the two capturing groups.
LineCommentMatch(body) ==
    [text |-> <<"/", "/">> \o body, single |-> body, multi |-> Undefined]

BlockCommentMatch(body) ==
    [text |-> <<"/", "*">> \o body \o <<"*", "/">>, single |-> Undefined, multi |-> body]

CommentMatches ==
    {LineCommentMatch(b) : b \in CommentBodies} \cup {BlockCommentMatch(b) : b \in CommentBodies}

\* Characters of the translator's answer (message.content).
ResponseAlphabet == {"x", ",", "'", " "}

ResponseContents == SeqsUpTo(ResponseAlphabet, MaxResponseLen)

\* getCommentRegex that has a pattern for every language id.
getCommentRegex_AnyLanguage(languageId) == <<"commentPattern">>

\* The pattern is the same for both supported languages; null otherwise.
getCommentRegex(languageId) ==
    IF languageId \in {"typescript", "typescriptreact"} THEN <<"commentPattern">> ELSE Null

\* JavaScript runs an invocation without interruption up to its await: no
\* other invocation takes a step while one is inside the comment loop.
NoneRunning == \A c \in Cycles : pc[c] # "scanning"

Finished(c) == pc[c] \in {"done", "rejected"}

\* decorations.forEach(... setDecorations(decorationType, [range]))
ApplyDecorations(decos) ==
    [i \in 1..Len(decos) |-> [range |-> decos[i].range, contentText |-> decos[i].contentText]]

\* handleDocumentUpdate from its entry to the comment loop: the editor
\* checks, the hydration of a new tree and the comment pattern lookup.  An
\* invocation takes the lowest slot of Cycles whose invocation is not
\* pending on its await, and starts with new local variables.
StartCycle(c, visible, language, languageId) ==
    /\ pc[c] \in {"idle", "done", "rejected"}
    /\ \A d \in Cycles : d < c => pc[d] = "awaiting"
    /\ NoneRunning
    /\ runs < MaxRuns
    /\ runs' = runs + 1
    /\ decorations' = [decorations EXCEPT ![c] = <<>>]
    /\ wordsToTranslate' = [wordsToTranslate EXCEPT ![c] = <<>>]
    /\ matches' = [matches EXCEPT ![c] = 0]
    /\ rendered' = [rendered EXCEPT ![c] = <<>>]
    /\ requests' = [requests EXCEPT ![c] = <<>>]
    /\ log' = [log EXCEPT ![c] = NewLog]
    /\ IF ~visible
       THEN /\ pc' = [pc EXCEPT ![c] = "done"]
            /\ lang' = [lang EXCEPT ![c] = "none"]
            /\ tree' = [tree EXCEPT ![c] = NewRoot]
            /\ warnings' = [warnings EXCEPT ![c] = <<>>]
       ELSE     /\ lang' = [lang EXCEPT ![c] = language]
                /\ tree' = [tree EXCEPT ![c] =
                       Hydrate(NewRoot, SavedEntries(globalState, language))]
                /\ IF getCommentRegex(languageId) = Null
                   THEN /\ warnings' = [warnings EXCEPT ![c] = <<languageId>>]
                        /\ pc' = [pc EXCEPT ![c] = "done"]
                   ELSE /\ pc' = [pc EXCEPT ![c] = "scanning"]
                        /\ warnings' = [warnings EXCEPT ![c] = <<>>]
    /\ UNCHANGED globalState
    /\ UNCHANGED treeVars
    /\ UNCHANGED activateVars

\* One iteration of the while loop over the comments of the visible text.
\* A range is <<number of the match, start, end>>, start and end being the
\* offsets inside the matched text.
ScanComment(c, match) ==
    /\ pc[c] = "scanning"
    /\ matches[c] < MaxComments
    /\ matches' = [matches EXCEPT ![c] = @ + 1]
    /\ LET commentContent == CommentContent(match)
           words == SplitWhitespace(commentContent)
       IN  IF Falsy(commentContent)
           THEN UNCHANGED <<pc, decorations, wordsToTranslate, log>>
           ELSE \E randomIndex \in RandomIndexes(Len(words)) :
                LET randomWord == getRandomWordsFromWords(words, 2, randomIndex)
                    startOffset == IndexOf(match.text, randomWord)
                    range == <<matches[c] + 1, startOffset, startOffset + Len(randomWord)>>
                    translation == findLongestMatch(tree[c], Split(randomWord, " "), 0)
                    sample == [kind |-> "sample", words |-> words,
                               randomIndex |-> randomIndex, randomWord |-> randomWord]
                IN  IF Falsy(randomWord)
                    THEN /\ pc' = [pc EXCEPT ![c] = "done"]
                         /\ log' = [log EXCEPT ![c].sample = sample]
                         /\ UNCHANGED <<decorations, wordsToTranslate>>
                    ELSE IF translation # Null
                    THEN /\ decorations' = [decorations EXCEPT ![c] =
                               Append(@, [randomWord |-> randomWord, range |-> range,
                                          contentText |-> NumberToString(translation[1])])]
                         /\ log' = [log EXCEPT ![c].sample = sample,
                                               ![c].hits = Append(@,
                                                   [randomWord |-> randomWord, range |-> range,
                                                    translation |-> translation])]
                         /\ UNCHANGED <<pc, wordsToTranslate>>
                    ELSE /\ wordsToTranslate' = [wordsToTranslate EXCEPT ![c] =
                               Append(@, [randomWord |-> randomWord, range |-> range])]
                         /\ log' = [log EXCEPT ![c].sample = sample,
                                               ![c].queued = Append(@,
                                                   [randomWord |-> randomWord, range |-> range])]
                         /\ UNCHANGED <<pc, decorations>>
    /\ UNCHANGED <<globalState, lang, tree, rendered, warnings, requests, runs>>
    /\ UNCHANGED treeVars
    /\ UNCHANGED activateVars

\* The loop has run out of comments: with nothing queued the decorations are
\* applied and the invocation ends, otherwise translateText is called and
\* awaited.
EndScan(c) ==
    /\ pc[c] = "scanning"
    /\ IF Len(wordsToTranslate[c]) > 0
       THEN /\ requests' = [requests EXCEPT ![c] = Append(@,
                   [text |-> [i \in 1..Len(wordsToTranslate[c]) |->
                                  wordsToTranslate[c][i].randomWord],
                    sourceLanguageCode |-> "en",
                    targetLanguageCode |-> lang[c]])]
            /\ pc' = [pc EXCEPT ![c] = "awaiting"]
            /\ UNCHANGED rendered
       ELSE /\ rendered' = [rendered EXCEPT ![c] = @ \o ApplyDecorations(decorations[c])]
            /\ pc' = [pc EXCEPT ![c] = "done"]
            /\ UNCHANGED requests
    /\ UNCHANGED <<globalState, lang, tree, decorations, wordsToTranslate, matches,
                   warnings, log, runs>>
    /\ UNCHANGED treeVars
    /\ UNCHANGED activateVars

\* translatedWords.forEach from position i on; st holds the tree, the
\* globalState and the decorations array.
RECURSIVE FoldTranslations(_, _, _, _, _)
FoldTranslations(st, translatedWords, queue, language, i) ==
    IF i > Len(translatedWords) THEN st
    ELSE IF i > Len(queue)
    THEN FoldTranslations(st, translatedWords, queue, language, i + 1)
    ELSE
        LET translation == translatedWords[i]
            randomWord == queue[i].randomWord
            range == queue[i].range
        IN  FoldTranslations(
                [tree |-> insert(st.tree, randomWord, translation),
                 memento |-> MementoUpdate(st.memento, language,
                                 ObjectWith(SavedEntries(st.memento, language),
                                            randomWord, translation)),
                 decorations |-> Append(st.decorations,
                                     [randomWord |-> randomWord, range |-> range,
                                      contentText |-> translation])],
                translatedWords, queue, language, i + 1)

\* translateText resolves with message.content trimmed, and the invocation
\* goes on from the await to its end.
TranslateReturns(c, content) ==
    /\ pc[c] = "awaiting"
    /\ NoneRunning
    /\ pc' = [pc EXCEPT ![c] = "done"]
    /\ LET translated == Trim(content)
           translatedWords == ParseTranslated(translated)
           st == FoldTranslations([tree |-> tree[c], memento |-> globalState,
                                   decorations |-> decorations[c]],
                                  translatedWords, wordsToTranslate[c], lang[c], 1)
       IN  /\ log' = [log EXCEPT ![c].response =
                         [kind |-> "content", empty |-> Falsy(translated),
                          translatedWords |-> translatedWords]]
           /\ IF Falsy(translated) \/ Len(translatedWords) = 0
              THEN UNCHANGED <<globalState, tree, decorations, wordsToTranslate, rendered>>
              ELSE /\ tree' = [tree EXCEPT ![c] = st.tree]
                   /\ globalState' = st.memento
                   /\ decorations' = [decorations EXCEPT ![c] = st.decorations]
                   /\ wordsToTranslate' = [wordsToTranslate EXCEPT ![c] = <<>>]
                   /\ rendered' = [rendered EXCEPT ![c] = @ \o ApplyDecorations(st.decorations)]
    /\ UNCHANGED <<lang, matches, warnings, requests, runs>>
    /\ UNCHANGED treeVars
    /\ UNCHANGED activateVars

\* translateText throws (fetch or response.json() rejects, the body is falsy
\* or lacks choices[0].message.content): its catch block logs and throws
\* again, nothing in handleDocumentUpdate catches, and the invocation's
\* promise is rejected.
TranslateThrows(c) ==
    /\ pc[c] = "awaiting"
    /\ NoneRunning
    /\ pc' = [pc EXCEPT ![c] = "rejected"]
    /\ log' = [log EXCEPT ![c].response = [kind |-> "error"]]
    /\ UNCHANGED <<globalState, lang, tree, decorations, wordsToTranslate, matches,
                   rendered, warnings, requests, runs>>
    /\ UNCHANGED treeVars
    /\ UNCHANGED activateVars

CycleNext ==
    \/ \E c \in Cycles, visible \in BOOLEAN, language \in Languages, languageId \in LanguageIds :
           StartCycle(c, visible, language, languageId)
    \/ \E c \in Cycles, match \in CommentMatches : ScanComment(c, match)
    \/ \E c \in Cycles : EndScan(c)
    \/ \E c \in Cycles, content \in ResponseContents : TranslateReturns(c, content)
    \/ \E c \in Cycles : TranslateThrows(c)

CycleSpec == Init /\ [][CycleNext]_vars

\* ------------------------------------------------------------------------
\* Update cycles on documents whose visible text has one comment of
\* MaxCommentWords + 1 words: the comments from which getRandomWordsFromWords
\* returns two words
\* ------------------------------------------------------------------------
LongCommentBodies ==
    {Join(ws, <<" ">>) : ws \in [1..(MaxCommentWords + 1) -> CommentWords]}

LongCommentMatches ==
    {LineCommentMatch(b) : b \in LongCommentBodies}
        \cup {BlockCommentMatch(b) : b \in LongCommentBodies}

\* The one iteration of the while loop when commentRegex.exec matches once.
ScanOnlyComment(c, match) ==
    /\ matches[c] = 0
    /\ ScanComment(c, match)

LongCommentNext ==
    \/ \E c \in Cycles, visible \in BOOLEAN, language \in Languages, languageId \in LanguageIds :
           StartCycle(c, visible, language, languageId)
    \/ \E c \in Cycles, match \in LongCommentMatches : ScanOnlyComment(c, match)
    \/ \E c \in Cycles : EndScan(c)
    \/ \E c \in Cycles, content \in ResponseContents : TranslateReturns(c, content)
    \/ \E c \in Cycles : TranslateThrows(c)

LongCommentSpec == Init /\ [][LongCommentNext]_vars

\* ------------------------------------------------------------------------
\* Round trip: translations folded into a tree and into the saved
\* translations, and a new tree hydrated from the saved translations
\* ------------------------------------------------------------------------
\* The phrases getRandomWordsFromWords(words, 2) returns and
\* handleDocumentUpdate queues: one or two words joined by a single space.
SamplePhrases == {Join(ws, <<" ">>) : ws \in SeqsUpTo(CommentWords, 2) \ {<<>>}}

\* The orders in which n entries can be enumerated.
EnumerationOrders(n) == {f \in [1..n -> 1..n] : \A i \in 1..n : \A j \in 1..n : i # j => f[i] # f[j]}

\* One turn of translatedWords.forEach in the first invocation: the phrase
\* and its translation go into the invocation's tree and into the saved
\* translations of the language.
Fold(randomWord, translation) ==
    /\ inserts < MaxInserts
    /\ pc[2] = "idle"
    /\ inserts' = inserts + 1
    /\ tree' = [tree EXCEPT ![1] = insert(tree[1], randomWord, translation)]
    /\ globalState' = MementoUpdate(globalState, "es",
                          ObjectWith(SavedEntries(globalState, "es"), randomWord, translation))
    /\ UNCHANGED <<root, stored, lastCall>>
    /\ UNCHANGED activateVars
    /\ UNCHANGED <<pc, lang, decorations, wordsToTranslate, matches, rendered, warnings,
                   requests, log, runs>>

\* A later invocation builds its tree from the saved translations, the
\* entries enumerated in the given order.
HydrateNew(order) ==
    /\ pc[2] = "idle"
    /\ Len(order) = Len(SavedEntries(globalState, "es"))
    /\ pc' = [pc EXCEPT ![2] = "hydrated"]
    /\ LET entries == SavedEntries(globalState, "es")
       IN  tree' = [tree EXCEPT ![2] =
                        Hydrate(NewRoot, [i \in 1..Len(entries) |-> entries[order[i]]])]
    /\ UNCHANGED treeVars
    /\ UNCHANGED activateVars
    /\ UNCHANGED <<globalState, lang, decorations, wordsToTranslate, matches, rendered,
                   warnings, requests, log, runs>>

RoundTripNext ==
    \/ \E randomWord \in SamplePhrases, translation \in Replacements : Fold(randomWord, translation)
    \/ \E order \in UNION {EnumerationOrders(n) : n \in 0..MaxInserts} : HydrateNew(order)

RoundTripSpec == Init /\ [][RoundTripNext]_vars

\* ------------------------------------------------------------------------
\* activate: the open-document listener and the debounced handler
\* ------------------------------------------------------------------------
\* The listener of onDidOpenTextDocument, activeDocument being the document
\* of window.activeTextEditor (NoDocument without an active editor).  The
\* call of debouncedHandler clears the pending timer and sets a new one.
OpenDocument(activeDocument) ==
    /\ IF activeDocument = NoDocument \/ activeDocument \in processedDocuments
       THEN UNCHANGED <<processedDocuments, timeout>>
       ELSE /\ processedDocuments' = processedDocuments \cup {activeDocument}
            /\ timeout' = activeDocument
    /\ UNCHANGED handled
    /\ UNCHANGED treeVars
    /\ UNCHANGED cycleVars

\* The delay has passed without another call of the debounced handler: the
\* callback of setTimeout calls handleDocumentUpdate with its document.
TimerFires ==
    /\ timeout # NoDocument
    /\ handled' = handled \cup {timeout}
    /\ timeout' = NoDocument
    /\ UNCHANGED processedDocuments
    /\ UNCHANGED treeVars
    /\ UNCHANGED cycleVars

DebounceNext ==
    \/ \E activeDocument \in Documents \cup {NoDocument} : OpenDocument(activeDocument)
    \/ TimerFires

\* A pending timer runs its callback unless it is cleared before.
DebounceSpec == Init /\ [][DebounceNext]_vars /\ WF_vars(TimerFires)

\* ------------------------------------------------------------------------
\* Claims about the tree
\* ------------------------------------------------------------------------
\* What the history says findLongestMatch must return: the greatest k such
\* that the k words from startIndex on are the words of an insert call, with
\* the replacement of the latest such call; no match when there is no such k.
LongestStored(st, words, startIndex) ==
    LET K == {k \in 1..(Len(words) - startIndex) :
                  SubSeq(words, startIndex + 1, startIndex + k) \in DOMAIN st}
    IN  IF K = {} THEN Null
        ELSE <<Max(K), st[SubSeq(words, startIndex + 1, startIndex + Max(K))]>>

\* C1: on every tree built by insert calls, findLongestMatch(words, startIndex)
\* returns the length of the longest inserted phrase that is a prefix of the
\* words from startIndex, with the replacement most recently inserted for it,
\* and null exactly when no inserted phrase is such a prefix.
C1_LongestMatch ==
    lastCall.op = "findLongestMatch" =>
        lastCall.result = LongestStored(stored, lastCall.words, lastCall.startIndex)

\* A shorter phrase and a longer one that extends it are both inserted, the
\* query goes on past the shorter one without matching the longer one, and
\* the shorter one is what findLongestMatch returned.
C1_Witness ==
    /\ lastCall.op = "findLongestMatch"
    /\ lastCall.result # Null
    /\ \E p \in DOMAIN stored, q \in DOMAIN stored :
          /\ Len(p) < Len(q)
          /\ SubSeq(q, 1, Len(p)) = p
          /\ lastCall.result = <<Len(p), stored[p]>>
          /\ Len(lastCall.words) - lastCall.startIndex > Len(p)

RECURSIVE RadixProperty(_)
RadixProperty(node) ==
    LET n == Len(node.children)
        label(i) == node.children[i].node.phrase
    IN  /\ \A i \in 1..n : node.children[i].key = First(label(i))
        /\ \A i \in 1..n : \A j \in 1..n : i # j => First(label(i)) # First(label(j))
        /\ \A i \in 1..n : RadixProperty(node.children[i].node)

\* C2: at every node of the tree, the root included, each child is stored
\* under the first word of its label and no two children of a node have
\* labels that begin with the same word.
C2_RadixProperty == RadixProperty(root)

\* A node below the root has two children: a three-way split took place.
C2_Witness ==
    /\ lastCall.op = "insert"
    /\ \E i \in 1..Len(root.children) : Len(root.children[i].node.children) = 2

\* C7: insert with an empty or whitespace-only phrase fails with an error and
\* leaves the tree as it was.
C7_BlankInsertFailsFast ==
    [][\A phrase \in PhraseStrings : \A replacement \in Replacements :
          (Trim(phrase) = <<>> /\ Insert(phrase, replacement))
              => (root' = root /\ lastCall'.outcome = "threw")]_vars

\* The number of nodes of the tree below and including node.
RECURSIVE NodeCount(_)
RECURSIVE NodeCountFrom(_, _)
NodeCountFrom(node, i) ==
    IF i > Len(node.children) THEN 0
    ELSE NodeCount(node.children[i].node) + NodeCountFrom(node, i + 1)

NodeCount(node) == 1 + NodeCountFrom(node, 1)

\* The end-of-word nodes of the tree below and including node, one entry per
\* node in pre-order: the words on the path from the root (path being the
\* words down to node, its own label included) and the node's replacement.
RECURSIVE EndOfWordNodes(_, _)
RECURSIVE EndOfWordNodesFrom(_, _, _)
EndOfWordNodesFrom(node, path, i) ==
    IF i > Len(node.children) THEN <<>>
    ELSE EndOfWordNodes(node.children[i].node, path \o node.children[i].node.phrase)
             \o EndOfWordNodesFrom(node, path, i + 1)

EndOfWordNodes(node, path) ==
    (IF node.isEndOfWord THEN <<[words |-> path, replacement |-> node.replacement]>> ELSE <<>>)
        \o EndOfWordNodesFrom(node, path, 1)

\* The end-of-word nodes whose path from the root spells these words.
EndOfWordNodesAt(root_, words) ==
    SelectSeq(EndOfWordNodes(root_, <<>>), LAMBDA e : e.words = words)

\* The phrases the tree stores: the paths of its end-of-word nodes.
StoredPhrases(root_) ==
    LET nodes == EndOfWordNodes(root_, <<>>)
    IN  {nodes[i].words : i \in 1..Len(nodes)}

\* C12: an insert call whose words were inserted before (the call adds no
\* phrase to the history) leaves exactly one end-of-word node on the phrase's
\* path, holding the replacement of this call, adds no node to the tree and
\* leaves the set of stored phrases as it was.
C12_ReinsertOverwrites ==
    [][(inserts' = inserts + 1 /\ DOMAIN stored' = DOMAIN stored)
           => /\ \A w \in DOMAIN stored' :
                    /\ Len(EndOfWordNodesAt(root', w)) = 1
                    /\ EndOfWordNodesAt(root', w)[1].replacement = stored'[w]
              /\ NodeCount(root') = NodeCount(root)
              /\ StoredPhrases(root') = StoredPhrases(root)]_vars

\* The two-word phrase "a a" was inserted twice and holds "y".
C12_Witness ==
    /\ inserts = 2
    /\ lastCall.op = "insert"
    /\ DOMAIN stored = {<<<<"a">>, <<"a">>>>}
    /\ NodeCount(root) = 2
    /\ EndOfWordNodes(root, <<>>) = <<[words |-> <<<<"a">>, <<"a">>>>, replacement |-> <<"y">>]>>

\* All labels of the tree are free of empty words.
RECURSIVE NoEmptyWord(_)
NoEmptyWord(node) ==
    /\ \A i \in 1..Len(node.phrase) : node.phrase[i] # <<>>
    /\ \A i \in 1..Len(node.children) : NoEmptyWord(node.children[i].node)

\* C14: insert splits its phrase at whitespace: after insert(p, r) on a tree
\* without empty words, findLongestMatch on the non-empty whitespace-separated
\* words of p returns (number of words, r) and no label holds an empty word.
C14_InsertTokenizesOnWhitespace ==
    [][\A phrase \in PhraseStrings : \A replacement \in Replacements :
          (/\ SplitWhitespace(phrase) # <<>>
           /\ NoEmptyWord(root)
           /\ Insert(phrase, replacement))
              => /\ findLongestMatch(root', SplitWhitespace(phrase), 0)
                        = <<Len(SplitWhitespace(phrase)), replacement>>
                 /\ NoEmptyWord(root')]_vars

\* At every node the replacement is defined exactly when isEndOfWord is true.
RECURSIVE EndMarkerProperty(_)
EndMarkerProperty(node) ==
    /\ node.isEndOfWord <=> node.replacement # Undefined
    /\ \A i \in 1..Len(node.children) : EndMarkerProperty(node.children[i].node)

\* C15: at every node the replacement is defined if and only if isEndOfWord
\* is true, and the end-of-word nodes are, one for one, the phrases inserted
\* so far with their latest replacements: no split loses, moves or changes
\* the end-marker and replacement of the node it demotes.  (A query leaves
\* the tree as it is, so the trees are looked at after the insert calls.)
C15_ReplacementIffEndOfWord ==
    lastCall.op # "findLongestMatch" =>
        /\ EndMarkerProperty(root)
        /\ StoredPhrases(root) = DOMAIN stored
        /\ \A w \in DOMAIN stored :
              /\ Len(EndOfWordNodesAt(root, w)) = 1
              /\ EndOfWordNodesAt(root, w)[1].replacement = stored[w]

\* A three-way split cleared a node: a child of the root has no end-marker and
\* no replacement, and its two children carry the two phrases.
C15_Witness ==
    /\ lastCall.op = "insert"
    /\ Cardinality(DOMAIN stored) = 2
    /\ \E i \in 1..Len(root.children) :
          LET child == root.children[i].node
          IN  /\ ~child.isEndOfWord
              /\ child.replacement = Undefined
              /\ Len(child.children) = 2
              /\ \A j \in 1..2 : child.children[j].node.isEndOfWord

\* C16: the root keeps an empty label and isEndOfWord = false whatever is
\* inserted, and findLongestMatch with startIndex at or beyond the length of
\* the word list returns no match.
C16_RootNeverMarked ==
    /\ root.phrase = <<>>
    /\ ~root.isEndOfWord
    /\ (lastCall.op = "findLongestMatch" /\ lastCall.startIndex >= Len(lastCall.words))
           => lastCall.result = Null

\* A blank phrase was inserted, and a query started at the end of its words.
C16_Witness ==
    /\ <<<<>>>> \in DOMAIN stored
    /\ lastCall.op = "findLongestMatch"
    /\ lastCall.startIndex >= Len(lastCall.words)
    /\ Len(lastCall.words) > 0

\* Every node below node has a label of at least one word.
RECURSIVE NonEmptyLabels(_)
NonEmptyLabels(node) ==
    \A i \in 1..Len(node.children) :
        /\ Len(node.children[i].node.phrase) >= 1
        /\ NonEmptyLabels(node.children[i].node)

\* C17: after any sequence of insert calls every node other than the root has
\* a label of at least one word.
C17_LabelsNeverEmpty == lastCall.op # "findLongestMatch" => NonEmptyLabels(root)

\* A child of the root ends a phrase and has one child that ends a longer
\* phrase with another replacement: the tree Case 2 leaves when the shorter
\* phrase is inserted after the longer one.
C17_Witness ==
    /\ lastCall.op = "insert"
    /\ \E i \in 1..Len(root.children) :
          LET child == root.children[i].node
          IN  /\ child.isEndOfWord
              /\ Len(child.children) = 1
              /\ child.children[1].node.isEndOfWord
              /\ child.replacement # child.children[1].node.replacement

\* ------------------------------------------------------------------------
\* Claims about the splits of insert
\* ------------------------------------------------------------------------
\* Where insertRecursive ends for these words: the child indexes from the
\* root down to the node it leaves changed, the case it ends with, the
\* number of words consumed before that node and the common prefix length.
RECURSIVE InsertSite(_, _, _, _)
InsertSite(node, words, index, path) ==
    IF index = Len(words)
    THEN [kind |-> "mark", path |-> path, index |-> index, k |-> 0]
    ELSE
        LET remainingWords == SubSeq(words, index + 1, Len(words))
            common(i) == findCommonPrefix(node.children[i].node.phrase, remainingWords)
            hits == {i \in 1..Len(node.children) : common(i) > 0}
        IN  IF hits = {}
            THEN [kind |-> "leaf", path |-> path, index |-> index, k |-> 0]
            ELSE
                LET i == Min(hits)
                    label == node.children[i].node.phrase
                IN  IF common(i) = Len(label)
                    THEN InsertSite(node.children[i].node, words, index + common(i),
                                    Append(path, i))
                    ELSE IF common(i) = Len(remainingWords)
                    THEN [kind |-> "shorter", path |-> Append(path, i),
                          index |-> index, k |-> common(i)]
                    ELSE [kind |-> "threeWay", path |-> Append(path, i),
                          index |-> index, k |-> common(i)]

\* The node the child indexes lead to.
RECURSIVE NodeAt(_, _)
NodeAt(node, path) ==
    IF path = <<>> THEN node ELSE NodeAt(node.children[Head(path)].node, Tail(path))

\* The step is an insert call of words not inserted before.
InsertsNewWords == inserts' = inserts + 1 /\ DOMAIN stored' # DOMAIN stored

\* The words of that call.
NewWords == CHOOSE w \in DOMAIN stored' : w \notin DOMAIN stored

\* Every phrase inserted before the step is matched, in the tree after the
\* step, with the replacement it had.
FormerPhrasesKept ==
    \A q \in DOMAIN stored : findLongestMatch(root', q, 0) = <<Len(q), stored[q]>>

C25_InsertChangesOnlyItsPhrase ==
    [][/\ inserts' = inserts + 1 =>
              \E w \in DOMAIN stored' :
                  /\ DOMAIN stored' # DOMAIN stored => w \notin DOMAIN stored
                  /\ StoredPhrases(root') = StoredPhrases(root) \cup {w}
                  /\ EndOfWordNodesAt(root', w) = <<[words |-> w, replacement |-> stored'[w]]>>
                  /\ \A q \in StoredPhrases(root) \ {w} :
                        EndOfWordNodesAt(root', q) = EndOfWordNodesAt(root, q)
       /\ StoredPhrases(root) \subseteq StoredPhrases(root')]_vars

\* After a three-way split the tree stores the two inserted phrases and not
\* their shared prefix.
C25_Witness ==
    /\ inserts = 2
    /\ lastCall.op = "insert"
    /\ Cardinality(StoredPhrases(root)) = 2
    /\ NodeCount(root) = 4
    /\ \E w \in StoredPhrases(root) : \E v \in StoredPhrases(root) :
          w # v /\ w[1] = v[1] /\ <<w[1]>> \notin StoredPhrases(root)

\* ------------------------------------------------------------------------
\* Claims about update cycles
\* ------------------------------------------------------------------------
\* The ranges of a list of samples or decorations.
Ranges(entries) == {entries[i].range : i \in 1..Len(entries)}

\* The translator's answer to invocation c parsed to a list of another
\* length than the batch that was sent.
Mismatched(c) ==
    /\ log[c].response.kind = "content"
    /\ Len(requests[c]) > 0
    /\ Len(log[c].response.translatedWords) # Len(requests[c][1].text)

\* The batched call of invocation c failed: it threw, or its result was empty.
BatchFailed(c) ==
    \/ log[c].response.kind = "error"
    \/ log[c].response.kind = "content" /\ log[c].response.empty

\* C3: an answer that parses to a list of another length than the batch
\* discards the batch: nothing is inserted into the tree, the persisted
\* dictionary is unchanged and no queued phrase gets a decoration.
C3_MismatchDiscardsBatch ==
    [][\A c \in Cycles :
          (pc[c] = "awaiting" /\ pc'[c] = "done" /\ Mismatched(c)')
              => /\ tree'[c] = tree[c]
                 /\ globalState' = globalState
                 /\ decorations'[c] = decorations[c]
                 /\ Ranges(rendered'[c]) \cap Ranges(log[c].queued) = {}]_vars

\* C4: the decoration of a cache hit shows the replacement string that
\* findLongestMatch returned for the sample.
C4_HitRendersReplacement ==
    \A c \in Cycles : \A i \in 1..Len(log[c].hits) :
        /\ decorations[c][i].range = log[c].hits[i].range
        /\ decorations[c][i].contentText = log[c].hits[i].translation[2]

\* C5: when the batched call fails, every cache hit of the cycle is still
\* rendered.
C5_HitsRenderedOnFailure ==
    \A c \in Cycles :
        (Finished(c) /\ BatchFailed(c)) => Ranges(log[c].hits) \subseteq Ranges(rendered[c])

\* C6: a failure of the batched call never rejects the promise of
\* handleDocumentUpdate.
C6_NeverRejected == \A c \in Cycles : pc[c] # "rejected"

\* C8: for a non-empty word list and a requested count of 2 the sample is the
\* min(2, words from the start index to the end) words from the start index
\* on, joined by single spaces: one or two words.
C8_SampleShape ==
    \A c \in Cycles :
        LET sample == log[c].sample
        IN  (sample.kind = "sample" /\ Len(sample.words) > 0) =>
                LET i == sample.randomIndex
                    rest == Len(sample.words) - i
                    k == IF rest < 2 THEN rest ELSE 2
                IN  /\ k \in 1..2
                    /\ sample.randomWord = Join(SubSeq(sample.words, i + 1, i + k), <<" ">>)

\* C9: a queued phrase ends resolved, or discarded because the batch result
\* was missing, malformed or mismatched; never because of another comment's
\* sample.
C9_QueuedResolvedOrDiscarded ==
    \A c \in Cycles :
        Finished(c) =>
            \A i \in 1..Len(log[c].queued) :
                \/ log[c].queued[i].range \in Ranges(rendered[c])
                \/ BatchFailed(c)
                \/ Mismatched(c)

\* C10: a cycle that queued a sample issues exactly one request, with the
\* queued phrases in the order they were queued; a cycle that queued none
\* issues no request.
C10_OneBatchedRequest ==
    \A c \in Cycles :
        /\ Len(requests[c]) <= 1
        /\ Finished(c) =>
              IF Len(log[c].queued) > 0
              THEN /\ Len(requests[c]) = 1
                   /\ requests[c][1].text =
                          [i \in 1..Len(log[c].queued) |-> log[c].queued[i].randomWord]
              ELSE requests[c] = <<>>

\* ------------------------------------------------------------------------
\* Claims about the round trip through the saved translations
\* ------------------------------------------------------------------------
\* The word lists and start indexes the two trees are compared on.
RoundTripQueries == SeqsUpTo(CommentWords, MaxQueryLen + 1)

\* C13: a new tree hydrated from the saved translations, whatever the order
\* in which the entries are enumerated, answers every findLongestMatch query
\* as the tree does into which the phrases were inserted when they were
\* saved.
C13_RoundTrip ==
    pc[2] = "hydrated" =>
        \A words \in RoundTripQueries : \A startIndex \in 0..(MaxQueryLen + 1) :
            findLongestMatch(tree[2], words, startIndex)
                = findLongestMatch(tree[1], words, startIndex)

\* Two phrases that share their first word were saved, the second one
\* splitting the node of the first, and the hydrated tree has another shape
\* than the tree they were inserted into.
C13_Witness ==
    /\ pc[2] = "hydrated"
    /\ Len(SavedEntries(globalState, "es")) = 2
    /\ Len(tree[1].children) = 1
    /\ Len(tree[1].children[1].node.children) > 0
    /\ tree[2] # tree[1]
    /\ findLongestMatch(tree[2], <<<<"a">>, <<"b">>>>, 0) # Null

\* ------------------------------------------------------------------------
\* Claims about the saved translations across update cycles
\* ------------------------------------------------------------------------
\* The phrases that have a saved translation for the language.
DictKeys(memento, language) ==
    IF language \in DOMAIN memento
    THEN {memento[language][i][1] : i \in 1..Len(memento[language])}
    ELSE {}

\* The saved translations of the language as a set of <<phrase, translation>>.
DictEntries(memento, language) ==
    IF language \in DOMAIN memento
    THEN {memento[language][i] : i \in 1..Len(memento[language])}
    ELSE {}

\* Invocation c takes the step from its await to its end with an answer.
Folds(c) == pc[c] = "awaiting" /\ pc'[c] = "done"

\* The phrases of the batch invocation c is waiting for.
BatchPhrases(c) == {wordsToTranslate[c][i].randomWord : i \in 1..Len(wordsToTranslate[c])}

\* C11: when the answer to a batch of n phrases has exactly n results, every
\* phrase i is in the tree and in the saved translations of the language
\* with result i (the result of its last position when the phrase is queued
\* more than once), and the range queued with phrase i gets the decoration
\* that shows result i.
C11_BatchAlignment ==
    [][\A c \in Cycles :
          LET queue == wordsToTranslate[c]
              results == log'[c].response.translatedWords
              n == Len(queue)
              last(i) == Max({j \in 1..n : queue[j].randomWord = queue[i].randomWord})
              phraseWords(i) == Split(queue[i].randomWord, " ")
          IN  (/\ Folds(c)
               /\ ~log'[c].response.empty
               /\ Len(results) = n)
                  => /\ \A i \in 1..n :
                           /\ findLongestMatch(tree'[c], phraseWords(i), 0)
                                  = <<Len(phraseWords(i)), results[last(i)]>>
                           /\ <<queue[i].randomWord, results[last(i)]>>
                                  \in DictEntries(globalState', lang[c])
                           /\ [range |-> queue[i].range, contentText |-> results[i]]
                                  \in {rendered'[c][k] : k \in 1..Len(rendered'[c])}
                     /\ decorations'[c] = decorations[c] \o
                            [i \in 1..n |-> [randomWord |-> queue[i].randomWord,
                                             range |-> queue[i].range,
                                             contentText |-> results[i]]]]_vars

\* A batch of two different phrases was answered with two different results,
\* and both are saved and rendered, each with its own result.
C11_Witness ==
    \E c \in Cycles :
        /\ pc[c] = "done"
        /\ Len(requests[c]) = 1
        /\ requests[c][1].text = <<<<"a">>, <<"b">>>>
        /\ log[c].response.kind = "content"
        /\ log[c].response.translatedWords = <<<<"x">>, <<>>>>
        /\ {<<<<"a">>, <<"x">>>>, <<<<"b">>, <<>>>>} \subseteq DictEntries(globalState, lang[c])
        /\ Len(rendered[c]) = 2

\* C18: a step keeps every saved translation of every language, but for the
\* phrases of the batch that the step folds into the language of its
\* invocation.
C18_AdditiveMerge ==
    [][\A language \in Languages : \A entry \in DictEntries(globalState, language) :
          \/ entry \in DictEntries(globalState', language)
          \/ \E c \in Cycles :
                Folds(c) /\ lang[c] = language /\ entry[1] \in BatchPhrases(c)]_vars

\* Two overlapping invocations for the same language resolved one phrase
\* each: the later answer was folded into saved translations that held the
\* phrase of the other invocation, and both phrases are saved.
C18_Witness ==
    /\ runs = 2
    /\ \A c \in Cycles : pc[c] = "done" /\ Len(requests[c]) = 1
    /\ Len(requests[1][1].text) = 1
    /\ lang[1] = lang[2]
    /\ DictKeys(globalState, lang[1]) = {<<"a">>, <<"b">>}

\* Invocation c has completed a batch: its answer was folded.
CompletedBatch(c) ==
    /\ pc[c] = "done"
    /\ log[c].response.kind = "content"
    /\ ~log[c].response.empty

\* The phrases the answer to invocation c resolved.
Resolved(c) ==
    LET text == requests[c][1].text
        results == log[c].response.translatedWords
    IN  {text[i] : i \in 1..(IF Len(results) < Len(text) THEN Len(results) ELSE Len(text))}

\* C19: when two invocations for the same language were pending on their
\* awaits at the same time and both have completed their batches, whichever
\* answer came first, the saved translations of the language hold every
\* phrase either of them resolved.
C19_NoLostUpdate ==
    \A c \in Cycles : \A d \in Cycles :
        (c # d /\ CompletedBatch(c) /\ CompletedBatch(d) /\ lang[c] = lang[d])
            => (Resolved(c) \cup Resolved(d)) \subseteq DictKeys(globalState, lang[c])

\* The second slot is taken only while the first invocation is pending on
\* its await: the two invocations overlapped, resolved different phrases for
\* the same language, and both phrases are saved.
C19_Witness ==
    /\ CompletedBatch(1)
    /\ CompletedBatch(2)
    /\ lang[1] = lang[2]
    /\ Resolved(1) = {<<"a">>}
    /\ Resolved(2) = {<<"b">>}
    /\ DictKeys(globalState, lang[1]) = {<<"a">>, <<"b">>}

\* C20: an invocation never queues, and never sends to the translator, a
\* phrase that had a saved translation for its language when it started: it
\* takes the phrase as a cache hit.  (No other invocation takes a step between
\* the start of an invocation and its await, so while an invocation is in its
\* comment loop the saved translations are those it started with.)
C20_SavedPhraseIsCacheHit ==
    [][\A c \in Cycles :
          pc[c] = "scanning" =>
              LET known == DictKeys(globalState, lang[c])
              IN  /\ \A i \in 1..Len(wordsToTranslate'[c]) :
                         wordsToTranslate'[c][i].randomWord \notin known
                  /\ \A r \in 1..Len(requests'[c]) : \A i \in 1..Len(requests'[c][r].text) :
                         requests'[c][r].text[i] \notin known
                  /\ (Len(log'[c].hits) + Len(log'[c].queued)
                          > Len(log[c].hits) + Len(log[c].queued)
                      /\ log'[c].sample.randomWord \in known)
                         => /\ Len(log'[c].hits) = Len(log[c].hits) + 1
                            /\ log'[c].hits[Len(log'[c].hits)].randomWord
                                   = log'[c].sample.randomWord]_vars

\* The first invocation resolved "a" and ended; the next one, in the same
\* slot and for the same language, sampled "a", took it as a cache hit and
\* went to its end without a request.
C20_Witness ==
    /\ runs = 2
    /\ pc[1] = "done"
    /\ lang[1] \in DOMAIN globalState
    /\ Len(log[1].hits) = 1
    /\ log[1].hits[1].randomWord \in DictKeys(globalState, lang[1])
    /\ log[1].queued = <<>>
    /\ requests[1] = <<>>
    /\ Len(rendered[1]) = 1

\* ------------------------------------------------------------------------
\* Claims about cache hits on samples of two words
\* ------------------------------------------------------------------------
\* C21: a sample is taken as a cache hit only when the tree stores the whole
\* sample: the match findLongestMatch returned for a hit covers all the words
\* of the sampled phrase.
C21_HitMatchesWholeSample ==
    \A c \in Cycles : \A i \in 1..Len(log[c].hits) :
        log[c].hits[i].translation[1] = Len(Split(log[c].hits[i].randomWord, " "))

\* ------------------------------------------------------------------------
\* Claims about documents in a language without comment pattern
\* ------------------------------------------------------------------------
\* The language ids commentPatterns has no entry for.
UnsupportedLanguageIds == LanguageIds \ {"typescript", "typescriptreact"}

\* C22: an invocation that has an active editor with a visible range and a
\* document in a language without comment pattern shows one warning and
\* ends: it takes no sample, sends no request, leaves the saved translations
\* as they are, applies no decoration and is not rejected; and that is how
\* every invocation that showed a warning stands.
C22_UnsupportedLanguageStops ==
    [][/\ runs' = runs + 1 =>
              \A c \in Cycles : \A language \in Languages :
                  \A languageId \in UnsupportedLanguageIds :
                      StartCycle(c, TRUE, language, languageId)
                          => /\ warnings'[c] = <<languageId>>
                             /\ pc'[c] = "done"
                             /\ globalState' = globalState
       /\ \A c \in Cycles :
              warnings'[c] # <<>>
                  => /\ pc'[c] = "done"
                     /\ log'[c] = NewLog
                     /\ wordsToTranslate'[c] = <<>>
                     /\ requests'[c] = <<>>
                     /\ decorations'[c] = <<>>
                     /\ rendered'[c] = <<>>]_vars

\* An invocation on a plaintext document has shown its warning and ended,
\* while translations saved by an earlier invocation are still there.
C22_Witness ==
    /\ runs = 2
    /\ warnings[1] = <<"plaintext">>
    /\ pc[1] = "done"
    /\ DictKeys(globalState, "es") = {<<"a">>}
    /\ requests[1] = <<>>
    /\ rendered[1] = <<>>

\* ------------------------------------------------------------------------
\* Claims about the open-document listener
\* ------------------------------------------------------------------------
\* C26: every document the listener records in the processed set is
\* eventually handed to handleDocumentUpdate.
C26_ProcessedIsHandled ==
    \A d \in Documents : (d \in processedDocuments) ~> (d \in handled)

====
